---- MODULE Spec2Model ----
(***************************************************************************)
(* Model of bpq.c, a Telnet chat client: the inbound Telnet filter, the   *)
(* newline normalizer, the RX line accumulator, the wide-character wrap,  *)
(* the logical store and visual ring with the scroll position, the       *)
(* autologin machines and the input lock of the main loop, the outbound   *)
(* IAC escaping, the handling of failed allocations, and the decoding of  *)
(* an emitted line into a logical line.                                   *)
(*                                                                         *)
(* Bytes are naturals 0..255.  A codepoint is a one-character string       *)
(* standing for its class (see wcwidth and iswpunct below).                *)
(***************************************************************************)
EXTENDS Integers, Sequences, FiniteSets, TLC

VARIABLES
    \* ---- Telnet filter (telnet_parser_t tp, bytes written by telnet_send3)
    tp,         \* [state, cmd] of the parser carried across reads
    sent,       \* sequence of 3-byte replies written to the socket
    \* ---- two-chunk run of the filter
    B,          \* the inbound byte stream
    cut,        \* the stream is split into B[1..cut] and B[cut+1..Len(B)];
                \* in SpecDecode, the number of lines decoded so far
    fpc,        \* "start", "mid", "done"; the position of the other
                \* single-function runs (SpecEscape, SpecNorm, SpecDecode)
    data,       \* data bytes returned by the filter so far
    \* ---- RX path of main: read, filter, normalize, accumulate
    rx_acc,     \* rx_acc[0..rx_len-1], the persistent RX accumulator
    rx_lines,   \* history: every line8 handed to the decoder, in order;
                \* in SpecDecode, the lines the read has completed
    rx_fed,     \* history: all normalized bytes appended to rx_acc;
                \* in SpecNorm, the normalizer's output for its own output
    rx_raw,     \* history: all raw bytes returned by read()
    \* ---- one call of wrap_and_push_wide, one outer iteration per step
    wline,      \* the logical line (sequence of codepoints)
    wwidth,     \* the width argument
    wi,         \* i, the 0-based index where the next segment starts
    wsegs,      \* history: [start, end) of every segment pushed so far
    wpc,        \* "loop" while the outer loop runs, "ret" once it has exited
    \* ---- output state of the session (bpq.c:43-68)
    store,      \* store[0..store_count-1], the logical lines
    visual,     \* visual[0..vis_count-1], the wrapped lines
    view_top,   \* index of the first visual line shown
    rows,       \* terminal rows as of the last getmaxyx
    cols,       \* terminal columns as of the last getmaxyx
    need_resize, \* set by on_winch, cleared by the loop
    alive,      \* the process runs: die_cleanup has not been called
    nomem,      \* history: some malloc, realloc or wcsdup has returned NULL
    \* ---- login, lock and transmit state of main (bpq.c:476-513)
    opt,        \* the options given on the command line
    pc,         \* position in the loop body: "select", "rx", "timers", "key"
    now,        \* CLOCK_MONOTONIC, milliseconds since start
    alp,        \* autologin_prompt_t: [enabled, state]
    alb,        \* autologin_blind_t: [enabled, stage, t0, t_pass]
    recent,     \* recent[0..rlen-1]
    last_rx,    \* clock reading taken after the last read that carried data
    input_locked,
    login_done, \* [flag, t]: login_done_flag and t_login_done
    auto_help_sent,
    ibuf,       \* the input line being edited
    wire,       \* history: every write to the socket, [src, bytes, locked];
                \* writes made while a read is processed also carry seen
    echoes,     \* history: every local_echo_line, [src, locked]
    inbound,    \* the chunks the node has sent that read() has yet to return
    nkeys       \* keystrokes so far

telnetVars == <<tp, sent>>
filterVars == <<B, cut, fpc, data>>
rxVars == <<rx_acc, rx_lines, rx_fed, rx_raw>>
wrapVars == <<wline, wwidth, wi, wsegs, wpc>>
viewVars == <<store, visual, view_top, rows, cols, need_resize, alive, nomem>>
lockVars == <<opt, pc, now, alp, alb, recent, last_rx, input_locked,
              login_done, auto_help_sent, ibuf, wire, echoes, inbound, nkeys>>
vars == <<tp, sent, B, cut, fpc, data, rx_acc, rx_lines, rx_fed, rx_raw,
          wline, wwidth, wi, wsegs, wpc,
          store, visual, view_top, rows, cols, need_resize, alive, nomem,
          opt, pc, now, alp, alb, recent, last_rx, input_locked,
          login_done, auto_help_sent, ibuf, wire, echoes, inbound, nkeys>>

\* ------------------------------------------------------------------------
\* Bounds of the model
\* ------------------------------------------------------------------------
MaxStream == 4      \* longest byte stream fed to the two-chunk filter run
MaxChunk == 3       \* longest single read() in the RX model
MaxRxTotal == 5     \* total raw bytes read in the RX model
MaxLineLen == 4     \* longest logical line given to the wrap model
MaxWidth == 4       \* largest width given to the wrap model
STORE_MAX == 2      \* capacity of the store (20000 in bpq.c:61), scaled down
VIS_MAX == 4        \* capacity of the visual ring (200000 in bpq.c:62), scaled down
RECENT_SIZE == 12   \* sizeof recent (8192 in bpq.c:505), scaled down
IBUF_SIZE == 3      \* elements of ibuf (4096 in bpq.c:513), scaled down
MaxKeys == 2        \* keystrokes in the lock model
MaxTime == 2400     \* the clock of the lock model stops here

\* ------------------------------------------------------------------------
\* Helpers
\* ------------------------------------------------------------------------
BSeq(S, n) == UNION {[1..k -> S] : k \in 0..n}

SubSeqFrom(s, i) == SubSeq(s, i, Len(s))

\* values of a group of variables in a specification that does not use it
WrapIdle == wline = <<>> /\ wwidth = 1 /\ wi = 0 /\ wsegs = <<>> /\ wpc = "off"
ViewIdle == /\ store = <<>> /\ visual = <<>> /\ view_top = 0
            /\ rows = 0 /\ cols = 0 /\ need_resize = 0
            /\ alive = TRUE /\ nomem = FALSE
LockIdle == /\ opt = <<>> /\ pc = "off" /\ now = 0
            /\ alp = <<>> /\ alb = <<>> /\ recent = <<>> /\ last_rx = 0
            /\ input_locked = FALSE /\ login_done = <<>>
            /\ auto_help_sent = FALSE /\ ibuf = <<>>
            /\ wire = <<>> /\ echoes = <<>> /\ inbound = <<>> /\ nkeys = 0

\* ------------------------------------------------------------------------
\* Telnet (bpq.c:40, 110-145)
\* ------------------------------------------------------------------------
IAC  == 255
DONT == 254
DO_  == 253
WONT == 252
WILL == 251
SB   == 250
SE   == 240

TmpCap == 65536     \* sizeof tmp, the filter's output buffer in main

tp0 == [state |-> 0, cmd |-> 0]

\* telnet_send3(a,b,c): one write of three bytes
telnet_send3(a, b, c) == <<a, b, c>>

\* a filter that agrees to what the peer asks it to do
TelnetByte_agree(r, ch, outcap) ==
    CASE r.tp.state = 0 ->
            IF ch = IAC THEN [r EXCEPT !.tp.state = 1]
            ELSE IF Len(r.out) < outcap THEN [r EXCEPT !.out = Append(@, ch)]
            ELSE r
      [] r.tp.state = 1 ->
            LET r1 == [r EXCEPT !.tp.cmd = ch] IN
            IF ch = IAC
              THEN [(IF Len(r1.out) < outcap
                       THEN [r1 EXCEPT !.out = Append(@, IAC)] ELSE r1)
                    EXCEPT !.tp.state = 0]
            ELSE IF ch \in {DO_, DONT, WILL, WONT} THEN [r1 EXCEPT !.tp.state = 2]
            ELSE IF ch = SB THEN [r1 EXCEPT !.tp.state = 3]
            ELSE IF ch = SE THEN [r1 EXCEPT !.tp.state = 0]
            ELSE [r1 EXCEPT !.tp.state = 0]
      [] r.tp.state = 2 ->
            LET r1 == IF r.tp.cmd = DO_
                        THEN [r EXCEPT !.sent = Append(@, telnet_send3(IAC, WILL, ch))]
                      ELSE IF r.tp.cmd = WILL
                        THEN [r EXCEPT !.sent = Append(@, telnet_send3(IAC, DONT, ch))]
                      ELSE r
            IN [r1 EXCEPT !.tp.state = 0]
      [] r.tp.state = 3 ->
            IF ch = IAC THEN [r EXCEPT !.tp.state = 4] ELSE r
      [] r.tp.state = 4 ->
            IF ch = SE THEN [r EXCEPT !.tp.state = 0] ELSE [r EXCEPT !.tp.state = 3]
      [] OTHER -> r

\* One iteration of the for loop of telnet_filter_and_reply on byte ch.
\* r = [tp, out, sent]: the parser, the output written so far, the replies.
TelnetByte(r, ch, outcap) ==
    CASE r.tp.state = 0 ->
            IF ch = IAC THEN [r EXCEPT !.tp.state = 1]
            ELSE IF Len(r.out) < outcap THEN [r EXCEPT !.out = Append(@, ch)]
            ELSE r
      [] r.tp.state = 1 ->
            LET r1 == [r EXCEPT !.tp.cmd = ch] IN
            IF ch = IAC
              THEN [(IF Len(r1.out) < outcap
                       THEN [r1 EXCEPT !.out = Append(@, IAC)] ELSE r1)
                    EXCEPT !.tp.state = 0]
            ELSE IF ch \in {DO_, DONT, WILL, WONT} THEN [r1 EXCEPT !.tp.state = 2]
            ELSE IF ch = SB THEN [r1 EXCEPT !.tp.state = 3]
            ELSE IF ch = SE THEN [r1 EXCEPT !.tp.state = 0]
            ELSE [r1 EXCEPT !.tp.state = 0]
      [] r.tp.state = 2 ->
            LET r1 == IF r.tp.cmd = DO_
                        THEN [r EXCEPT !.sent = Append(@, telnet_send3(IAC, WONT, ch))]
                      ELSE IF r.tp.cmd = WILL
                        THEN [r EXCEPT !.sent = Append(@, telnet_send3(IAC, DONT, ch))]
                      ELSE r
            IN [r1 EXCEPT !.tp.state = 0]
      [] r.tp.state = 3 ->
            IF ch = IAC THEN [r EXCEPT !.tp.state = 4] ELSE r
      [] r.tp.state = 4 ->
            IF ch = SE THEN [r EXCEPT !.tp.state = 0] ELSE [r EXCEPT !.tp.state = 3]
      [] OTHER -> r

RECURSIVE TelnetLoop(_, _, _, _)
TelnetLoop(r, in, i, outcap) ==
    IF i > Len(in) THEN r
    ELSE TelnetLoop(TelnetByte(r, in[i], outcap), in, i + 1, outcap)

\* a filter that starts every call in the Data state instead of resuming
telnet_filter_and_reply_fresh(p, in, outcap) ==
    TelnetLoop([tp |-> tp0, out |-> <<>>, sent |-> <<>>], in, 1, outcap)

\* telnet_filter_and_reply(tp, in, len, out, outcap): the parser after the
\* call, the bytes stored in out[0..o-1], and the replies it wrote.
telnet_filter_and_reply(p, in, outcap) ==
    TelnetLoop([tp |-> p, out |-> <<>>, sent |-> <<>>], in, 1, outcap)

\* ------------------------------------------------------------------------
\* Two-chunk run of the filter: the stream B arrives as two reads
\* ------------------------------------------------------------------------
FilterBytes == {IAC, DONT, DO_, WONT, WILL, SB, SE, 65, 42}

InitFilter ==
    /\ B \in BSeq(FilterBytes, MaxStream)
    /\ cut \in 0..Len(B)
    /\ fpc = "start"
    /\ tp = tp0
    /\ sent = <<>>
    /\ data = <<>>
    /\ rx_acc = <<>> /\ rx_lines = <<>> /\ rx_fed = <<>> /\ rx_raw = <<>>
    /\ WrapIdle /\ ViewIdle /\ LockIdle

FilterChunk(chunk, next) ==
    LET r == telnet_filter_and_reply(tp, chunk, TmpCap) IN
    /\ tp' = r.tp
    /\ sent' = sent \o r.sent
    /\ data' = data \o r.out
    /\ fpc' = next
    /\ UNCHANGED <<B, cut>>
    /\ UNCHANGED <<rxVars, wrapVars, viewVars, lockVars>>

FilterFirst  == fpc = "start" /\ FilterChunk(SubSeq(B, 1, cut), "mid")
FilterSecond == fpc = "mid"   /\ FilterChunk(SubSeqFrom(B, cut + 1), "done")

NextFilter == FilterFirst \/ FilterSecond

SpecFilter == InitFilter /\ [][NextFilter]_vars

\* C1: running the filter on the first chunk and then, with the carried
\* parser, on the second gives the same data bytes, the same replies and the
\* same final parser as one run on the whole stream from the Data state.
C1_SplitEqualsWhole ==
    fpc = "done" =>
        LET w == telnet_filter_and_reply(tp0, B, TmpCap) IN
        /\ data = w.out
        /\ sent = w.sent
        /\ tp = w.tp

\* a DO negotiation cut between its command and its option byte, answered
C1_Witness ==
    /\ fpc = "done"
    /\ Len(B) >= 3 /\ cut = 2
    /\ B[1] = IAC /\ B[2] = DO_
    /\ sent = <<telnet_send3(IAC, WONT, B[3])>>

\* The filter as a reading of the stream in whole command sequences.
\* AfterSB(s): what follows the IAC SE that closes a subnegotiation whose
\* payload starts at s (nothing if it is not closed in s).
RECURSIVE AfterSB(_)
AfterSB(s) ==
    IF Len(s) < 2 THEN <<>>
    ELSE IF s[1] # IAC THEN AfterSB(Tail(s))
    ELSE IF s[2] = SE THEN SubSeqFrom(s, 3)
    ELSE AfterSB(SubSeqFrom(s, 3))

\* [out, sent]: the data bytes and the replies for the stream s
RECURSIVE ByCommand(_)
ByCommand(s) ==
    IF s = <<>> THEN [out |-> <<>>, sent |-> <<>>]
    ELSE IF s[1] # IAC
      THEN LET r == ByCommand(Tail(s)) IN [r EXCEPT !.out = <<s[1]>> \o @]
    ELSE IF Len(s) = 1 THEN [out |-> <<>>, sent |-> <<>>]
    ELSE IF s[2] = IAC
      THEN LET r == ByCommand(SubSeqFrom(s, 3)) IN [r EXCEPT !.out = <<IAC>> \o @]
    ELSE IF s[2] \in {DO_, WILL, DONT, WONT}
      THEN IF Len(s) = 2 THEN [out |-> <<>>, sent |-> <<>>]
           ELSE LET r == ByCommand(SubSeqFrom(s, 4)) IN
                IF s[2] = DO_ THEN [r EXCEPT !.sent = <<<<IAC, WONT, s[3]>>>> \o @]
                ELSE IF s[2] = WILL
                  THEN [r EXCEPT !.sent = <<<<IAC, DONT, s[3]>>>> \o @]
                ELSE r
    ELSE IF s[2] = SB THEN ByCommand(AfterSB(SubSeqFrom(s, 3)))
    ELSE ByCommand(SubSeqFrom(s, 3))

\* the part of B the filter has been given so far
FilterSeen ==
    CASE fpc = "start" -> <<>>
      [] fpc = "mid" -> SubSeq(B, 1, cut)
      [] OTHER -> B

CR == 13
LF == 10

OutCap == 65536     \* sizeof out, the normalizer's output buffer in main

Put(out, ch, outcap) == IF Len(out) < outcap THEN Append(out, ch) ELSE out

\* a normalizer that rewrites CR LF only and lets a lone CR through
RECURSIVE NormLoop_keepcr(_, _, _, _)
NormLoop_keepcr(in, i, out, outcap) ==
    IF i > Len(in) THEN out
    ELSE LET ch == in[i] IN
         IF ch = CR /\ i + 1 <= Len(in) /\ in[i + 1] = LF
           THEN NormLoop_keepcr(in, i + 2, Put(out, LF, outcap), outcap)
           ELSE NormLoop_keepcr(in, i + 1, Put(out, ch, outcap), outcap)

RECURSIVE NormLoop(_, _, _, _)
NormLoop(in, i, out, outcap) ==
    IF i > Len(in) THEN out
    ELSE LET ch == in[i] IN
         IF ch = CR
           THEN IF i + 1 <= Len(in) /\ in[i + 1] = LF
                  THEN NormLoop(in, i + 2, Put(out, LF, outcap), outcap)
                  ELSE NormLoop(in, i + 1, Put(out, LF, outcap), outcap)
         ELSE IF ch = LF
           THEN NormLoop(in, i + 1, Put(out, LF, outcap), outcap)
         ELSE NormLoop(in, i + 1, Put(out, ch, outcap), outcap)

normalize_incoming(in, outcap) == NormLoop(in, 1, <<>>, outcap)

\* ------------------------------------------------------------------------
\* RX accumulator (bpq.c:545-589)
\* ------------------------------------------------------------------------
\* memchr(rx_acc + consumed, '\n', rx_len - consumed): index of the first LF
\* after the first `consumed` bytes, 0 when there is none
memchr(buf, consumed) ==
    LET hits == {k \in (consumed + 1)..Len(buf) : buf[k] = LF} IN
    IF hits = {} THEN 0 ELSE CHOOSE k \in hits : \A j \in hits : k <= j

\* the for(;;) loop extracting every complete line; r = [consumed, lines]
RECURSIVE ExtractLoop(_, _)
ExtractLoop(buf, r) ==
    LET pos == memchr(buf, r.consumed) IN
    IF pos = 0 THEN r
    ELSE LET linelen == pos - 1 - r.consumed
             line8 == SubSeq(buf, r.consumed + 1, r.consumed + linelen)
         IN ExtractLoop(buf, [consumed |-> r.consumed + linelen + 1,
                              lines |-> Append(r.lines, line8)])

\* a compaction that is one byte short and keeps the last terminator
Compact_keepterm(buf, consumed) ==
    IF consumed > 0 THEN SubSeq(buf, consumed, Len(buf)) ELSE buf

\* the memmove of the partial tail to the front of rx_acc
Compact(buf, consumed) ==
    IF consumed > 0 THEN SubSeq(buf, consumed + 1, Len(buf)) ELSE buf

\* the accumulator part of one read: append the m normalized bytes, extract
\* the complete lines, keep the tail.  [acc, lines]
RxAccumulate(acc, out) ==
    LET buf == acc \o out
        r == ExtractLoop(buf, [consumed |-> 0, lines |-> <<>>])
    IN [acc |-> Compact(buf, r.consumed), lines |-> r.lines]

\* One socket read of main (bpq.c:537-589) applied to the state
\* st = [tp, sent, acc, lines, fed]: filter, normalize, and when m > 0
\* accumulate.
RxRead(st, in) ==
    LET f == telnet_filter_and_reply(st.tp, in, TmpCap)
        out == normalize_incoming(f.out, OutCap)
        a == RxAccumulate(st.acc, out)
    IN IF Len(out) > 0
         THEN [tp |-> f.tp, sent |-> st.sent \o f.sent, acc |-> a.acc,
               lines |-> st.lines \o a.lines, fed |-> st.fed \o out]
         ELSE [st EXCEPT !.tp = f.tp, !.sent = st.sent \o f.sent]

rx0 == [tp |-> tp0, sent |-> <<>>, acc |-> <<>>, lines |-> <<>>, fed |-> <<>>]

\* ------------------------------------------------------------------------
\* The RX path as a state machine: any sequence of reads
\* ------------------------------------------------------------------------
RxBytes == {CR, LF, 65, IAC}

\* "AB\r\nCD" in one read, then "EF\n" in a second read
ScenarioRead1 == <<65, 66, CR, LF, 67, 68>>
ScenarioRead2 == <<69, 70, LF>>

IsPrefix(s, t) == Len(s) <= Len(t) /\ SubSeq(t, 1, Len(s)) = s

InitRx ==
    /\ tp = tp0 /\ sent = <<>>
    /\ rx_acc = <<>> /\ rx_lines = <<>> /\ rx_fed = <<>> /\ rx_raw = <<>>
    /\ B = <<>> /\ cut = 0 /\ fpc = "off" /\ data = <<>>
    /\ WrapIdle /\ ViewIdle /\ LockIdle

ReadChunks ==
    (BSeq(RxBytes, MaxChunk) \ {<<>>}) \cup {ScenarioRead1, ScenarioRead2}

SocketRead ==
    \E in \in ReadChunks :
        /\ \/ Len(rx_raw) + Len(in) <= MaxRxTotal
           \/ IsPrefix(rx_raw \o in, ScenarioRead1 \o ScenarioRead2)
        /\ LET st == RxRead([tp |-> tp, sent |-> sent, acc |-> rx_acc,
                             lines |-> rx_lines, fed |-> rx_fed], in)
           IN /\ tp' = st.tp
              /\ sent' = st.sent
              /\ rx_acc' = st.acc
              /\ rx_lines' = st.lines
              /\ rx_fed' = st.fed
        /\ rx_raw' = rx_raw \o in
        /\ UNCHANGED <<filterVars, wrapVars, viewVars, lockVars>>

NextRx == SocketRead

SpecRx == InitRx /\ [][NextRx]_vars

RECURSIVE JoinLines(_)
JoinLines(ls) ==
    IF ls = <<>> THEN <<>> ELSE Head(ls) \o <<LF>> \o JoinLines(Tail(ls))

HasByte(s, b) == \E k \in 1..Len(s) : s[k] = b

\* C2: no emitted line holds a line-feed, the accumulator holds no line-feed
\* between reads, and the emitted lines, each followed by a line-feed,
\* followed by the remainder are exactly the normalized bytes fed so far.
C2_AccumulatorLossless ==
    /\ \A k \in 1..Len(rx_lines) : ~HasByte(rx_lines[k], LF)
    /\ ~HasByte(rx_acc, LF)
    /\ JoinLines(rx_lines) \o rx_acc = rx_fed

\* "AB\r\nCD" then "EF\n" gave exactly the lines "AB" and "CDEF"
C2_Witness ==
    /\ rx_raw = ScenarioRead1 \o ScenarioRead2
    /\ rx_lines = <<<<65, 66>>, <<67, 68, 69, 70>>>>
    /\ rx_acc = <<>>

\* C3: however the stream was split into reads, the lines handed on are
\* those of the whole stream arriving in one read.
C3_SplitReadsSameLines ==
    rx_lines = RxRead(rx0, rx_raw).lines

\* ------------------------------------------------------------------------
\* Codepoint classes.  A codepoint is a one-character string; the letters
\* below stand for codepoints that ASCII cannot spell.
\* ------------------------------------------------------------------------
WideChars  == {"W", "P"}    \* "W": a CJK ideograph, "P": a fullwidth comma
ZeroChars  == {"z", "q"}    \* "z": a zero-width letter mark, "q": a combining accent
CtrlChars  == {"c"}         \* a control character, wcwidth gives -1
PunctChars == {",", "P", "q", ">", "^"}

wcwidth(ch) ==
    IF ch \in WideChars THEN 2
    ELSE IF ch \in ZeroChars THEN 0
    ELSE IF ch \in CtrlChars THEN -1
    ELSE 1

iswpunct(ch) == ch \in PunctChars

\* int w = wcwidth(ch); if (w < 0) w = 1;
CharW(ch) == LET w == wcwidth(ch) IN IF w < 0 THEN 1 ELSE w

\* ------------------------------------------------------------------------
\* wrap_and_push_wide (bpq.c:284-329).  Indices are 0-based as in the code:
\* line[i] of the code is line[i + 1] here.
\* ------------------------------------------------------------------------
\* the inner while loop; r = [i, col, overflow, last_break, col_at_last_break]
RECURSIVE WrapScan(_, _, _)
WrapScan(line, width, r) ==
    IF r.i >= Len(line) THEN r
    ELSE LET ch == line[r.i + 1]
             w == CharW(ch)
             r1 == IF ch = " " \/ iswpunct(ch)
                     THEN [r EXCEPT !.last_break = r.i,
                                    !.col_at_last_break = r.col + w]
                     ELSE r
         IN IF r1.col + w > width THEN [r1 EXCEPT !.overflow = TRUE]
            ELSE LET r2 == [r1 EXCEPT !.col = @ + w, !.i = @ + 1] IN
                 IF r2.col = width THEN r2 ELSE WrapScan(line, width, r2)

\* a variant of the choice of end that takes no codepoint when none fits
WrapEnd_noforce(line, width, start) ==
    LET r == WrapScan(line, width,
                      [i |-> start, col |-> 0, overflow |-> FALSE,
                       last_break |-> -1, col_at_last_break |-> 0])
    IN IF r.overflow /\ r.last_break >= start /\ r.col_at_last_break > 0
         THEN r.last_break + 1
         ELSE r.i

\* the end of the segment that starts at `start` (bpq.c:289-315)
WrapEnd(line, width, start) ==
    LET r == WrapScan(line, width,
                      [i |-> start, col |-> 0, overflow |-> FALSE,
                       last_break |-> -1, col_at_last_break |-> 0])
        end == r.i
    IN IF r.overflow
         THEN IF r.last_break >= start /\ r.col_at_last_break > 0
                THEN r.last_break + 1
              ELSE IF end = start THEN start + 1
              ELSE end
         ELSE end

\* while (end < len && line[end]==L' ') end++;
RECURSIVE SkipSpaces(_, _)
SkipSpaces(line, end) ==
    IF end < Len(line) /\ line[end + 1] = " "
      THEN SkipSpaces(line, end + 1) ELSE end

\* if (width < 1) width = 1;
ClampWidth(width) == IF width < 1 THEN 1 ELSE width

\* the segments pushed by the outer loop from index i on, as strings
RECURSIVE WrapFrom(_, _, _)
WrapFrom(line, width, i) ==
    IF i >= Len(line) THEN <<>>
    ELSE LET end == WrapEnd(line, width, i) IN
         <<SubSeq(line, i + 1, end)>>
             \o WrapFrom(line, width, SkipSpaces(line, end))

\* wrap_and_push_wide(line, width): the visual lines it pushes, in order
wrap_and_push_wide(line, width) == WrapFrom(line, ClampWidth(width), 0)

\* ------------------------------------------------------------------------
\* The wrap loop as a state machine: one visual line per step
\* ------------------------------------------------------------------------
WrapChars == {"a", " ", ",", "W", "P", "z", "q", "c"}

HelloWorld == <<"h", "e", "l", "l", "o", " ", "w", "o", "r", "l", "d">>

InitWrap ==
    /\ \E in \in (BSeq(WrapChars, MaxLineLen) \X (1..MaxWidth))
                       \cup {<<HelloWorld, 5>>} :
          wline = in[1] /\ wwidth = in[2]
    /\ wi = 0
    /\ wsegs = <<>>
    /\ wpc = "loop"
    /\ tp = tp0 /\ sent = <<>>
    /\ B = <<>> /\ cut = 0 /\ fpc = "off" /\ data = <<>>
    /\ rx_acc = <<>> /\ rx_lines = <<>> /\ rx_fed = <<>> /\ rx_raw = <<>>
    /\ ViewIdle /\ LockIdle

\* one iteration of the outer while loop
WrapStep ==
    /\ wpc = "loop"
    /\ wi < Len(wline)
    /\ LET end == WrapEnd(wline, ClampWidth(wwidth), wi) IN
       /\ wsegs' = Append(wsegs, [start |-> wi, end |-> end])
       /\ wi' = SkipSpaces(wline, end)
    /\ UNCHANGED <<wline, wwidth, wpc>>
    /\ UNCHANGED <<telnetVars, filterVars, rxVars, viewVars, lockVars>>

\* the loop condition i < len fails and the function returns
WrapReturn ==
    /\ wpc = "loop"
    /\ ~(wi < Len(wline))
    /\ wpc' = "ret"
    /\ UNCHANGED <<wline, wwidth, wi, wsegs>>
    /\ UNCHANGED <<telnetVars, filterVars, rxVars, viewVars, lockVars>>

NextWrap == WrapStep \/ WrapReturn

SpecWrap == InitWrap /\ [][NextWrap]_vars

WrapDone == wpc = "ret"

\* display width of line[s..e-1] (0-based, end exclusive)
RECURSIVE Cols(_, _, _)
Cols(line, s, e) == IF s >= e THEN 0 ELSE CharW(line[s + 1]) + Cols(line, s + 1, e)

IsBreak(ch) == ch = " " \/ iswpunct(ch)

\* C4: every visual line produced has display width at most W.
C4_VisualWidthBounded ==
    \A k \in 1..Len(wsegs) : Cols(wline, wsegs[k].start, wsegs[k].end) <= wwidth

\* C5: a logical line, wrapped to its end, has given at least one visual
\* line: exactly one empty visual line when it is empty, and no empty visual
\* line otherwise.
C5_AtLeastOneVisual ==
    WrapDone =>
        /\ Len(wsegs) >= 1
        /\ wline = <<>> => Len(wsegs) = 1 /\ wsegs[1].start = wsegs[1].end
        /\ wline # <<>> => \A k \in 1..Len(wsegs) : wsegs[k].start < wsegs[k].end

\* C6: a visual line that ends before the end of the logical line, and whose
\* fitting part holds a break opportunity after its first codepoint, ends
\* right after the last such break opportunity.
C6_CutAtLastBreak ==
    \A k \in 1..Len(wsegs) :
        LET s == wsegs[k].start
            fits == {e \in s..Len(wline) : Cols(wline, s, e) <= wwidth}
            fitEnd == CHOOSE e \in fits : \A x \in fits : x <= e
            brk == {b \in (s + 1)..(fitEnd - 1) : IsBreak(wline[b + 1])}
        IN (Cols(wline, s, Len(wline)) > wwidth /\ brk # {})
              => wsegs[k].end = 1 + CHOOSE b \in brk : \A x \in brk : x <= b

AllSpaces(line, s, e) == \A j \in s..(e - 1) : line[j + 1] = " "

\* C7: the visual lines are non-empty, in-order, non-overlapping slices; what
\* lies between two of them, and after the last, is a run of spaces; no visual
\* line after the first begins with a space; every step consumes a codepoint.
C7_SlicesModuloSpaces ==
    /\ \A k \in 1..Len(wsegs) :
          /\ 0 <= wsegs[k].start
          /\ wsegs[k].start < wsegs[k].end
          /\ wsegs[k].end <= Len(wline)
    /\ wsegs # <<>> => wsegs[1].start = 0
    /\ \A k \in 1..(Len(wsegs) - 1) :
          /\ wsegs[k].end <= wsegs[k + 1].start
          /\ AllSpaces(wline, wsegs[k].end, wsegs[k + 1].start)
          /\ wline[wsegs[k + 1].start + 1] # " "
    /\ wsegs # <<>> =>
          /\ wsegs[Len(wsegs)].end <= wi
          /\ AllSpaces(wline, wsegs[Len(wsegs)].end, wi)
    /\ wsegs = <<>> => wi = 0
    /\ wi <= Len(wline)
    /\ wi < Len(wline) /\ wsegs # <<>> => wline[wi + 1] # " "

\* a line wrapped to the end in three visual lines, with a space elided at a
\* cut and a codepoint wider than the width taken alone
C7_Witness ==
    /\ WrapDone
    /\ Len(wsegs) >= 3
    /\ \E k \in 1..(Len(wsegs) - 1) : wsegs[k].end < wsegs[k + 1].start
    /\ \E k \in 1..Len(wsegs) :
          Cols(wline, wsegs[k].start, wsegs[k].end) > wwidth

\* ------------------------------------------------------------------------
\* Store and visual ring (bpq.c:269-355).  v = [store, visual, view_top]
\* ------------------------------------------------------------------------
Max0(n) == IF n < 0 THEN 0 ELSE n

\* int visible = rows-2; if (visible<1) visible=1;
Visible(r) == IF r - 2 < 1 THEN 1 ELSE r - 2

\* int width = cols - 1; if (width<1) width=1;
Width(c) == IF c - 1 < 1 THEN 1 ELSE c - 1

\* a ring that, once full, overwrites its newest entry instead of its oldest
push_visual_w_newest(v, s) ==
    IF Len(v.visual) < VIS_MAX
      THEN [v EXCEPT !.visual = Append(@, s)]
      ELSE [v EXCEPT !.visual = Append(SubSeq(@, 1, VIS_MAX - 1), s)]

push_visual_w(v, s) ==
    IF Len(v.visual) < VIS_MAX
      THEN [v EXCEPT !.visual = Append(@, s)]
      ELSE [v EXCEPT !.visual = Append(Tail(@), s),
                     !.view_top = IF @ > 0 THEN @ - 1 ELSE @]

\* push_visual_w on each segment in turn
RECURSIVE PushAll(_, _)
PushAll(v, segs) ==
    IF segs = <<>> THEN v ELSE PushAll(push_visual_w(v, Head(segs)), Tail(segs))

add_logical_line_w(v, line, follow, r, c) ==
    LET v1 == IF Len(v.store) < STORE_MAX
                THEN [v EXCEPT !.store = Append(@, line)]
                ELSE [v EXCEPT !.store = Append(Tail(@), line)]
        v2 == PushAll(v1, wrap_and_push_wide(line, Width(c)))
    IN IF follow
         THEN [v2 EXCEPT !.view_top = Max0(Len(v2.visual) - Visible(r))]
         ELSE v2

\* the loop of reflow: wrap_and_push_wide on store[i], i = k..store_count-1
RECURSIVE ReflowLoop(_, _, _)
ReflowLoop(v, k, c) ==
    IF k > Len(v.store) THEN v
    ELSE ReflowLoop(PushAll(v, wrap_and_push_wide(v.store[k], Width(c))), k + 1, c)

reflow(v, keep_bottom, r, c) ==
    LET v1 == ReflowLoop([v EXCEPT !.visual = <<>>], 1, c)
        max_top == Max0(Len(v1.visual) - Visible(r))
    IN IF keep_bottom
         THEN [v1 EXCEPT !.view_top = max_top]
         ELSE LET t == IF v1.view_top > max_top THEN max_top ELSE v1.view_top
              IN [v1 EXCEPT !.view_top = IF t < 0 THEN 0 ELSE t]

\* the part of render_out that changes state (bpq.c:360-362)
render_out(v, r) ==
    LET max_top == Max0(Len(v.visual) - Visible(r))
    IN IF v.view_top > max_top THEN [v EXCEPT !.view_top = max_top] ELSE v

\* is_following() and the same test inlined in main (bpq.c:446-449, 523, 571)
is_following(v, r) == v.view_top + Visible(r) >= Len(v.visual) - 1

\* ------------------------------------------------------------------------
\* The session's output side: reads that complete lines, local echo,
\* resize, scroll keys
\* ------------------------------------------------------------------------
\* terminal sizes <<rows, cols>> getmaxyx may report
TermSizes == {<<1, 1>>, <<4, 3>>, <<5, 2>>, <<4, 4>>}

\* decoded, tab-expanded lines completed by a read
RxLineSet == {<<>>, <<"a">>, <<"b", "b", "b">>}

\* what a read completes: no line, one line, or two lines
RxBatches == {<<>>} \cup {<<l>> : l \in RxLineSet}
                    \cup {<<l, <<"a">>>> : l \in RxLineSet}

\* lines typed by the user that are echoed
EchoSrcs == {<<>>, <<"^", "Z">>}

View == [store |-> store, visual |-> visual, view_top |-> view_top]

SetView(v) ==
    /\ store' = v.store
    /\ visual' = v.visual
    /\ view_top' = v.view_top

OthersIdle ==
    /\ tp = tp0 /\ sent = <<>>
    /\ B = <<>> /\ cut = 0 /\ fpc = "off" /\ data = <<>>
    /\ rx_acc = <<>> /\ rx_lines = <<>> /\ rx_fed = <<>> /\ rx_raw = <<>>
    /\ WrapIdle /\ LockIdle

\* what the output side leaves alone when every allocation succeeds
OthersUnchanged ==
    UNCHANGED <<telnetVars, filterVars, rxVars, wrapVars, lockVars, alive, nomem>>

\* after ui_init and the first render_out
Init ==
    /\ \E sz \in TermSizes : rows = sz[1] /\ cols = sz[2]
    /\ store = <<>> /\ visual = <<>> /\ view_top = 0
    /\ need_resize = 0
    /\ alive = TRUE /\ nomem = FALSE
    /\ OthersIdle

\* on_winch
Winch ==
    /\ need_resize = 0
    /\ need_resize' = 1
    /\ UNCHANGED <<store, visual, view_top, rows, cols>>
    /\ OthersUnchanged

\* bpq.c:519-527
ServiceResize ==
    /\ need_resize = 1
    /\ \E sz \in TermSizes :
          /\ rows' = sz[1] /\ cols' = sz[2]
          /\ LET keep_bottom == is_following(View, sz[1])
             IN SetView(render_out(reflow(View, keep_bottom, sz[1], sz[2]), sz[1]))
    /\ need_resize' = 0
    /\ OthersUnchanged

\* the per-line body of the extraction loop (bpq.c:570-576), line after line
RECURSIVE AddLines(_, _, _, _)
AddLines(v, lines, r, c) ==
    IF lines = <<>> THEN v
    ELSE AddLines(add_logical_line_w(v, Head(lines), is_following(v, r), r, c),
                  Tail(lines), r, c)

\* a read with m > 0: the completed lines are appended, then render_out
RxLines ==
    /\ \E batch \in RxBatches :
          SetView(render_out(AddLines(View, batch, rows, cols), rows))
    /\ UNCHANGED <<rows, cols, need_resize>>
    /\ OthersUnchanged

\* local_echo_line(src) (bpq.c:452-463)
LocalEcho ==
    /\ \E src \in EchoSrcs :
          LET echo == <<">", " ">> \o src IN
          SetView(render_out(
              add_logical_line_w(View, echo, is_following(View, rows), rows, cols),
              rows))
    /\ UNCHANGED <<rows, cols, need_resize>>
    /\ OthersUnchanged

\* Ctrl-Z with --no-pass-ctrl-z: after the resume (bpq.c:655-660)
Resume ==
    /\ \E sz \in TermSizes :
          /\ rows' = sz[1] /\ cols' = sz[2]
          /\ LET keep_bottom == is_following(View, sz[1])
             IN SetView(render_out(reflow(View, keep_bottom, sz[1], sz[2]), sz[1]))
    /\ UNCHANGED need_resize
    /\ OthersUnchanged

\* a scroll key moves view_top to t, then render_out
ScrollTo(t) ==
    /\ SetView(render_out([View EXCEPT !.view_top = t], rows))
    /\ UNCHANGED <<rows, cols, need_resize>>
    /\ OthersUnchanged

MaxTop == Max0(Len(visual) - Visible(rows))

\* a page-up handler that does not stop at the top
KeyPPageTarget_noclamp == view_top - (Visible(rows) \div 2)

KeyPPageTarget == Max0(view_top - (Visible(rows) \div 2))
KeyNPageTarget ==
    LET t == view_top + (Visible(rows) \div 2)
    IN IF t > MaxTop THEN MaxTop ELSE t
KeyDownTarget == IF view_top < MaxTop THEN view_top + 1 ELSE view_top
KeyUpTarget == IF view_top > 0 THEN view_top - 1 ELSE view_top

\* bpq.c:664-669
KeyPPage == ScrollTo(KeyPPageTarget)
KeyNPage == ScrollTo(KeyNPageTarget)
KeyHome  == ScrollTo(0)
KeyEnd   == ScrollTo(Max0(Len(visual) - Visible(rows)))
KeyUp    == ScrollTo(KeyUpTarget)
KeyDown  == ScrollTo(KeyDownTarget)

Next ==
    \/ Winch
    \/ ServiceResize
    \/ RxLines
    \/ LocalEcho
    \/ Resume
    \/ KeyPPage
    \/ KeyNPage
    \/ KeyHome
    \/ KeyEnd
    \/ KeyUp
    \/ KeyDown

Spec == Init /\ [][Next]_vars

\* C8: between loop steps the scroll position is within
\* 0 .. max(0, vis_count - viewport height).
C8_ViewTopInRange ==
    /\ 0 <= view_top
    /\ view_top <= Max0(Len(visual) - Visible(rows))

\* the visual ring is full, the store has evicted, and the viewer is scrolled
\* up to a position strictly inside the range
C8_Witness ==
    /\ Len(visual) = VIS_MAX
    /\ Len(store) = STORE_MAX
    /\ 0 < view_top
    /\ view_top < Max0(Len(visual) - Visible(rows))

\* the visual lines obtained by wrapping every stored line at the current
\* width, limited to the newest VIS_MAX
RECURSIVE WrapStore(_, _)
WrapStore(st, c) ==
    IF st = <<>> THEN <<>>
    ELSE wrap_and_push_wide(Head(st), Width(c)) \o WrapStore(Tail(st), c)

Newest(s, n) == IF Len(s) <= n THEN s ELSE SubSeq(s, Len(s) - n + 1, Len(s))

\* C9: the visual sequence is what wrapping the stored logical lines at the
\* current width produces (newest VIS_MAX entries).
C9_VisualDerivedFromStore ==
    visual = Newest(WrapStore(store, cols), VIS_MAX)

\* ------------------------------------------------------------------------
\* Helpers TX (bpq.c:393-409)
\* ------------------------------------------------------------------------
\* strlen: the bytes before the first NUL
RECURSIVE CStr(_)
CStr(s) == IF s = <<>> \/ Head(s) = 0 THEN <<>> ELSE <<Head(s)>> \o CStr(Tail(s))

send_eol(o) == IF o.cr_only THEN <<CR>> ELSE <<CR, LF>>

\* a writer that does not escape
write_telnet_safe_raw(s) == s

RECURSIVE write_telnet_safe(_)
write_telnet_safe(s) ==
    IF s = <<>> THEN <<>>
    ELSE (IF Head(s) = IAC THEN <<IAC, IAC>> ELSE <<Head(s)>>)
             \o write_telnet_safe(Tail(s))

send_line_utf8_telnet_safe(s, o) == write_telnet_safe(CStr(s)) \o send_eol(o)

\* ------------------------------------------------------------------------
\* Case-insensitive strstr (bpq.c:411-419) and strstr
\* ------------------------------------------------------------------------
tolower(b) == IF 65 <= b /\ b <= 90 THEN b + 32 ELSE b

Lower(s) == [k \in 1..Len(s) |-> tolower(s[k])]

Occurs(hay, needle) ==
    \E k \in 1..(Len(hay) - Len(needle) + 1) :
        SubSeq(hay, k, k + Len(needle) - 1) = needle

strstr(hay, needle) == Occurs(CStr(hay), needle)
istrstr(hay, needle) == Occurs(Lower(CStr(hay)), Lower(needle))

S_login    == <<108, 111, 103, 105, 110, 58>>
S_user     == <<117, 115, 101, 114, 58>>
S_callsign == <<99, 97, 108, 108, 115, 105, 103, 110, 58>>
S_password == <<112, 97, 115, 115, 119, 111, 114, 100, 58>>
S_pass     == <<112, 97, 115, 115, 58>>
S_pw       == <<112, 119, 58>>
S_enterpw  == <<101, 110, 116, 101, 114, 32, 112, 97, 115, 115, 119, 111, 114, 100>>
S_brace    == <<125, 32>>
S_gt       == <<62, 32>>
S_hash     == <<35, 32>>
S_colon    == <<58, 32>>
S_bbs      == <<99, 111, 110, 110, 101, 99, 116, 101, 100, 32, 116, 111, 32, 98, 98, 115>>

LoginMarker(r) ==
    istrstr(r, S_login) \/ istrstr(r, S_user) \/ istrstr(r, S_callsign)
PasswordMarker(r) ==
    \/ istrstr(r, S_password) \/ istrstr(r, S_pass)
    \/ istrstr(r, S_pw) \/ istrstr(r, S_enterpw)
PromptLike(r) ==
    \/ strstr(r, S_brace) \/ strstr(r, S_gt) \/ strstr(r, S_hash)
    \/ strstr(r, S_colon) \/ istrstr(r, S_bbs)

\* ------------------------------------------------------------------------
\* Autologin (bpq.c:421-443)
\* ------------------------------------------------------------------------
DU_MS == 150
DP_MS == 1000

\* the -u and -p arguments: "U", "P"; and the callsign "N0CALL"
UserName == <<85>>
Password == <<80>>
N0CALL == <<78, 48, 67, 65, 76, 76>>

since_ms(a, b) == b - a

\* a prompt machine that goes on to the password test in the call that sent
\* the username
autologin_try_prompt_fallthrough(al, r, o) ==
    IF ~al.enabled \/ al.state >= 2 THEN [al |-> al, tx |-> <<>>]
    ELSE LET u == IF al.state = 0 /\ LoginMarker(r)
                    THEN <<[src |-> "user",
                            bytes |-> send_line_utf8_telnet_safe(o.user, o)]>>
                    ELSE <<>>
             st1 == IF u # <<>> THEN 1 ELSE al.state
             w == IF st1 = 1 /\ PasswordMarker(r)
                    THEN <<[src |-> "pass",
                            bytes |-> send_line_utf8_telnet_safe(o.pass, o)]>>
                    ELSE <<>>
         IN [al |-> [al EXCEPT !.state = IF w # <<>> THEN 2 ELSE st1],
             tx |-> u \o w]

\* [al, tx]: the machine after the call and the lines it transmitted
autologin_try_prompt(al, r, o) ==
    IF ~al.enabled \/ al.state >= 2 THEN [al |-> al, tx |-> <<>>]
    ELSE IF al.state = 0
      THEN IF LoginMarker(r)
             THEN [al |-> [al EXCEPT !.state = 1],
                   tx |-> <<[src |-> "user",
                             bytes |-> send_line_utf8_telnet_safe(o.user, o)]>>]
             ELSE [al |-> al, tx |-> <<>>]
    ELSE IF PasswordMarker(r)
      THEN [al |-> [al EXCEPT !.state = 2],
            tx |-> <<[src |-> "pass",
                      bytes |-> send_line_utf8_telnet_safe(o.pass, o)]>>]
      ELSE [al |-> al, tx |-> <<>>]

\* a blind machine that sends the password in the call that sent the username
\* when both delays have passed
autologin_try_blind_both(ab, t, o) ==
    IF ~ab.enabled \/ ab.stage >= 2 THEN [ab |-> ab, tx |-> <<>>]
    ELSE LET ms == since_ms(ab.t0, t)
             u == IF ab.stage = 0 /\ ms >= DU_MS
                    THEN <<[src |-> "blind_user",
                            bytes |-> send_line_utf8_telnet_safe(o.user, o)]>>
                    ELSE <<>>
             st1 == IF u # <<>> THEN 1 ELSE ab.stage
             w == IF st1 = 1 /\ ms >= DP_MS
                    THEN <<[src |-> "blind_pass",
                            bytes |-> send_line_utf8_telnet_safe(o.pass, o)]>>
                    ELSE <<>>
         IN [ab |-> IF w # <<>> THEN [ab EXCEPT !.stage = 2, !.t_pass = t]
                    ELSE [ab EXCEPT !.stage = st1],
             tx |-> u \o w]

\* [ab, tx]; t is the reading of the clock in the call.  The src of a
\* transmitted line names the machine that wrote it.
autologin_try_blind(ab, t, o) ==
    IF ~ab.enabled \/ ab.stage >= 2 THEN [ab |-> ab, tx |-> <<>>]
    ELSE LET ms == since_ms(ab.t0, t) IN
         IF ab.stage = 0 /\ ms >= DU_MS
           THEN [ab |-> [ab EXCEPT !.stage = 1],
                 tx |-> <<[src |-> "blind_user",
                           bytes |-> send_line_utf8_telnet_safe(o.user, o)]>>]
         ELSE IF ab.stage = 1 /\ ms >= DP_MS
           THEN [ab |-> [ab EXCEPT !.stage = 2, !.t_pass = t],
                 tx |-> <<[src |-> "blind_pass",
                           bytes |-> send_line_utf8_telnet_safe(o.pass, o)]>>]
         ELSE [ab |-> ab, tx |-> <<>>]

\* ------------------------------------------------------------------------
\* The recent window (bpq.c:593-602)
\* ------------------------------------------------------------------------
RecentUpdate(rec, out) ==
    LET m == Len(out)
        chunk == IF m > RECENT_SIZE THEN RECENT_SIZE ELSE m
        sh0 == (Len(rec) + chunk) - RECENT_SIZE
        sh == IF sh0 > Len(rec) THEN Len(rec) ELSE sh0
        r1 == IF Len(rec) + chunk > RECENT_SIZE
                THEN SubSeq(rec, sh + 1, Len(rec)) ELSE rec
        r2 == r1 \o SubSeq(out, m - chunk + 1, m)
    IN \* recent[(rlen<sizeof(recent))?rlen:sizeof(recent)-1] = '\0';
       IF Len(r2) < RECENT_SIZE THEN r2
       ELSE [r2 EXCEPT ![RECENT_SIZE] = 0]

\* ------------------------------------------------------------------------
\* The loop of main, login and transmit side (bpq.c:518-717)
\* ------------------------------------------------------------------------
DefaultOpt ==
    [prompt |-> FALSE, blind |-> FALSE, cr_only |-> FALSE, auto_help |-> TRUE,
     local_echo |-> TRUE, pass_ctrl_z |-> TRUE, ctrlz_append_cr |-> FALSE,
     unlock_delay_ms |-> 1200, unlock_quiet_ms |-> 300,
     user |-> UserName, pass |-> Password]

\* command lines: none; -u U -p P; -u N0CALL -p P; -u U -p P --blind-auto;
\* -u U -p P --no-auto-help --no-local-echo --no-pass-ctrl-z --unlock-quiet 0;
\* -u U -p P --blind-auto --cr-only --ctrl-z-cr --unlock-delay 0
Options ==
    { DefaultOpt,
      [DefaultOpt EXCEPT !.prompt = TRUE],
      [DefaultOpt EXCEPT !.prompt = TRUE, !.user = N0CALL],
      [DefaultOpt EXCEPT !.prompt = TRUE, !.blind = TRUE],
      [DefaultOpt EXCEPT !.prompt = TRUE, !.auto_help = FALSE,
                         !.local_echo = FALSE, !.pass_ctrl_z = FALSE,
                         !.unlock_quiet_ms = 0],
      [DefaultOpt EXCEPT !.prompt = TRUE, !.blind = TRUE, !.cr_only = TRUE,
                         !.ctrlz_append_cr = TRUE, !.unlock_delay_ms = 0] }

\* What the node sends in a session, as the chunks read() returns:
\* nothing; "login:" / " " / CR LF; "login:" / "pw:" / "> "; "> ";
\* "pw:" / "login:" / "A"; IAC DO 1 / "LOGIN:"; and a stream longer than
\* the recent window, "aaaaaaaa" / "login:" / "pw:".
LockStreams ==
    { <<>>,
      <<S_login, <<32>>, <<CR, LF>>>>,
      <<S_login, S_pw, S_gt>>,
      <<S_gt>>,
      <<S_pw, S_login, <<65>>>>,
      <<<<IAC, DO_, 1>>, <<76, 79, 71, 73, 78, 58>>>>,
      <<<<97, 97, 97, 97, 97, 97, 97, 97>>, S_login, S_pw>> }

\* how far the clock moves between two wakes of select
TimeSteps == {0, 150, 850, 1000}

Tag(tx, locked) ==
    [k \in 1..Len(tx) |->
        [src |-> tx[k].src, bytes |-> tx[k].bytes, locked |-> locked]]

\* history: the writes a read caused, with the number of normalized bytes
\* received when they were made
Seen(tx, n) ==
    [k \in 1..Len(tx) |->
        [src |-> tx[k].src, bytes |-> tx[k].bytes, locked |-> tx[k].locked,
         seen |-> n]]

InitLock ==
    /\ opt \in Options
    /\ pc = "select"
    /\ now = 0
    /\ alp = [enabled |-> opt.prompt, state |-> 0]
    /\ alb = [enabled |-> opt.blind, stage |-> 0, t0 |-> 0, t_pass |-> 0]
    /\ recent = <<>>
    /\ last_rx = 0
    /\ input_locked = (opt.prompt \/ opt.blind)
    /\ login_done = [flag |-> FALSE, t |-> 0]
    /\ auto_help_sent = FALSE
    /\ ibuf = <<>>
    /\ wire = <<>> /\ echoes = <<>>
    /\ inbound \in LockStreams /\ nkeys = 0
    /\ tp = tp0 /\ sent = <<>>
    /\ B = <<>> /\ cut = 0 /\ fpc = "off" /\ data = <<>>
    /\ rx_acc = <<>> /\ rx_lines = <<>> /\ rx_fed = <<>> /\ rx_raw = <<>>
    /\ WrapIdle /\ ViewIdle

LockFrame == UNCHANGED <<filterVars, rxVars, wrapVars, viewVars, opt>>

\* select returns; then bpq.c:535
Wake ==
    /\ pc = "select"
    /\ \E d \in TimeSteps :
          /\ now + d <= MaxTime
          /\ now' = now + d
          /\ LET b == IF alb.enabled /\ alb.stage < 2
                        THEN autologin_try_blind(alb, now + d, opt)
                        ELSE [ab |-> alb, tx |-> <<>>]
             IN /\ alb' = b.ab
                /\ wire' = wire \o Tag(b.tx, input_locked)
    /\ pc' = "rx"
    /\ UNCHANGED <<alp, recent, last_rx, input_locked, login_done,
                   auto_help_sent, ibuf, echoes, inbound, nkeys, telnetVars>>
    /\ LockFrame

\* the socket is not readable
RxNone ==
    /\ pc = "rx"
    /\ pc' = "timers"
    /\ UNCHANGED <<now, alp, alb, recent, last_rx, input_locked, login_done,
                   auto_help_sent, ibuf, wire, echoes, inbound, nkeys, telnetVars>>
    /\ LockFrame

\* bpq.c:537-615 without the accumulator and the store
RxData ==
    /\ pc = "rx"
    /\ inbound # <<>>
    /\ LET in == Head(inbound) IN
          LET f == telnet_filter_and_reply(tp, in, TmpCap)
              out == normalize_incoming(f.out, OutCap)
              replies == [k \in 1..Len(f.sent) |->
                             [src |-> "telnet", bytes |-> f.sent[k]]]
              rec == RecentUpdate(recent, out)
              a == IF alp.enabled /\ alp.state < 2
                     THEN autologin_try_prompt(alp, rec, opt)
                     ELSE [al |-> alp, tx |-> <<>>]
              \* clock_gettime(&last_rx) at bpq.c:591, read again at 609
              quiet == input_locked /\ PromptLike(rec)
                          /\ since_ms(last_rx', now) >= opt.unlock_quiet_ms
          IN /\ tp' = f.tp
             /\ sent' = sent \o f.sent
             /\ IF Len(out) > 0
                  THEN /\ recent' = rec
                       /\ last_rx' = now
                       /\ alp' = a.al
                       /\ login_done' = IF alp.enabled /\ alp.state < 2
                                             /\ a.al.state = 2
                                          THEN [flag |-> TRUE, t |-> now]
                                          ELSE login_done
                       /\ rx_fed' = rx_fed \o out
                       /\ wire' = wire \o Seen(Tag(replies \o a.tx, input_locked),
                                               Len(rx_fed) + Len(out))
                       /\ input_locked' = IF quiet THEN FALSE ELSE input_locked
                  ELSE /\ wire' = wire \o Seen(Tag(replies, input_locked),
                                               Len(rx_fed))
                       /\ UNCHANGED <<recent, last_rx, alp, login_done,
                                      input_locked, rx_fed>>
    /\ inbound' = Tail(inbound)
    /\ pc' = "timers"
    /\ UNCHANGED <<now, alb, auto_help_sent, ibuf, echoes, nkeys>>
    /\ UNCHANGED <<filterVars, rx_acc, rx_lines, rx_raw, wrapVars, viewVars,
                   opt>>

\* the timer checks without the record that auto-help has fired
Timers_helprepeat ==
    /\ pc = "timers"
    /\ LET t0 == IF login_done.flag THEN login_done.t ELSE alb.t_pass
           locked1 == IF input_locked /\ (login_done.flag \/ alb.stage = 2)
                           /\ since_ms(t0, now) >= opt.unlock_delay_ms
                        THEN FALSE ELSE input_locked
           help == ~locked1 /\ ~auto_help_sent /\ opt.auto_help
       IN /\ input_locked' = locked1
          /\ auto_help_sent' = auto_help_sent
          /\ wire' = IF help
                       THEN Append(wire,
                              [src |-> "help",
                               bytes |-> send_line_utf8_telnet_safe(<<63>>, opt),
                               locked |-> locked1])
                       ELSE wire
    /\ pc' = "key"
    /\ UNCHANGED <<now, alp, alb, recent, last_rx, login_done, ibuf, echoes,
                   inbound, nkeys, telnetVars>>
    /\ LockFrame

\* bpq.c:617-628
Timers ==
    /\ pc = "timers"
    /\ LET t0 == IF login_done.flag THEN login_done.t ELSE alb.t_pass
           locked1 == IF input_locked /\ (login_done.flag \/ alb.stage = 2)
                           /\ since_ms(t0, now) >= opt.unlock_delay_ms
                        THEN FALSE ELSE input_locked
           help == ~locked1 /\ ~auto_help_sent /\ opt.auto_help
       IN /\ input_locked' = locked1
          /\ auto_help_sent' = (auto_help_sent \/ help)
          /\ wire' = IF help
                       THEN Append(wire,
                              [src |-> "help",
                               bytes |-> send_line_utf8_telnet_safe(<<63>>, opt),
                               locked |-> locked1])
                       ELSE wire
    /\ pc' = "key"
    /\ UNCHANGED <<now, alp, alb, recent, last_rx, login_done, ibuf, echoes,
                   inbound, nkeys, telnetVars>>
    /\ LockFrame

KeyFrame ==
    /\ pc' = "select"
    /\ UNCHANGED <<now, alp, alb, recent, last_rx, input_locked, login_done,
                   auto_help_sent, inbound, telnetVars>>
    /\ LockFrame

\* get_wch returns ERR
KeyNone ==
    /\ pc = "key"
    /\ UNCHANGED <<ibuf, wire, echoes, nkeys>>
    /\ KeyFrame

\* bpq.c:637-662
KeyCtrlZ ==
    /\ pc = "key" /\ nkeys < MaxKeys
    /\ nkeys' = nkeys + 1
    /\ IF opt.pass_ctrl_z
         THEN /\ echoes' = IF opt.local_echo
                             THEN Append(echoes, [src |-> <<94, 90>>,
                                                  locked |-> input_locked])
                             ELSE echoes
              /\ wire' = Append(wire,
                    [src |-> "sub",
                     bytes |-> write_telnet_safe(<<26>>)
                                 \o (IF opt.ctrlz_append_cr
                                       THEN send_eol(opt) ELSE <<>>),
                     locked |-> input_locked])
         ELSE UNCHANGED <<echoes, wire>>
    /\ UNCHANGED ibuf
    /\ KeyFrame

\* bpq.c:670-705
KeyEnter ==
    /\ pc = "key" /\ nkeys < MaxKeys
    /\ nkeys' = nkeys + 1
    /\ IF ~input_locked
         THEN /\ echoes' = IF opt.local_echo
                             THEN Append(echoes, [src |-> ibuf,
                                                  locked |-> input_locked])
                             ELSE echoes
              /\ wire' = Append(wire,
                    [src |-> "line",
                     bytes |-> write_telnet_safe(CStr(ibuf)) \o send_eol(opt),
                     locked |-> input_locked])
         ELSE UNCHANGED <<echoes, wire>>
    /\ ibuf' = <<>>
    /\ KeyFrame

\* bpq.c:706-711
KeyBackspace ==
    /\ pc = "key" /\ nkeys < MaxKeys
    /\ nkeys' = nkeys + 1
    /\ ibuf' = IF Len(ibuf) > 0 THEN SubSeq(ibuf, 1, Len(ibuf) - 1) ELSE ibuf
    /\ UNCHANGED <<wire, echoes>>
    /\ KeyFrame

\* bpq.c:712-715, the key 'a'
KeyPrint ==
    /\ pc = "key" /\ nkeys < MaxKeys
    /\ nkeys' = nkeys + 1
    /\ ibuf' = IF Len(ibuf) < IBUF_SIZE - 1 THEN Append(ibuf, 97) ELSE ibuf
    /\ UNCHANGED <<wire, echoes>>
    /\ KeyFrame

NextLock ==
    \/ Wake
    \/ RxNone
    \/ RxData
    \/ Timers
    \/ KeyNone
    \/ KeyCtrlZ
    \/ KeyEnter
    \/ KeyBackspace
    \/ KeyPrint

\* sessions with keystrokes: the node is silent or goes through a whole login
InitKeys == InitLock /\ inbound \in {<<>>, <<S_login, S_pw, S_gt>>}

SpecLock == InitKeys /\ [][NextLock]_vars

\* C10: every write made while the input lock is asserted is a Telnet reply
\* or an autologin credential line; nothing typed by the user is written.
C10_LockedWritesNotFromUser ==
    \A k \in 1..Len(wire) :
        wire[k].locked =>
            wire[k].src \in {"telnet", "user", "pass", "blind_user", "blind_pass"}

\* ------------------------------------------------------------------------
\* Sessions in which the user types nothing.  The keyboard actions leave
\* alp, alb, recent, last_rx, input_locked, login_done and auto_help_sent
\* unchanged (KeyFrame), so these sessions reach every value of the login
\* and lock state that SpecLock reaches.
\* ------------------------------------------------------------------------
NextLogin ==
    \/ Wake
    \/ RxNone
    \/ RxData
    \/ Timers
    \/ KeyNone

SpecLogin == InitLock /\ [][NextLogin]_vars

\* pc = "key": the unlock checks of the current wake have all been made
ChecksDone == pc = "key"

\* C11: when the quiet period is greater than zero, the recent text matches
\* the prompt-like pattern and no inbound bytes have arrived for at least the
\* quiet period, the lock is no longer asserted once the checks of a wake
\* have been made.
C11_QuietUnlock ==
    ( /\ ChecksDone
      /\ opt.unlock_quiet_ms > 0
      /\ PromptLike(recent)
      /\ since_ms(last_rx, now) >= opt.unlock_quiet_ms )
        => ~input_locked

\* the lines written by the prompt-triggered machine, in order
IsPromptTx(e) == e.src \in {"user", "pass"}
PromptTx == SelectSeq(wire, IsPromptTx)

UserLine == [src |-> "user", bytes |-> CStr(opt.user) \o send_eol(opt)]
PassLine == [src |-> "pass", bytes |-> CStr(opt.pass) \o send_eol(opt)]
Untag(e) == [src |-> e.src, bytes |-> e.bytes]
PromptLines == [k \in 1..Len(PromptTx) |-> Untag(PromptTx[k])]

\* this step is a read that returned data: the recent window is updated
RecentUpdated ==
    /\ pc = "rx" /\ inbound # <<>> /\ inbound' = Tail(inbound)
    /\ Len(normalize_incoming(
              telnet_filter_and_reply(tp, Head(inbound), TmpCap).out,
              OutCap)) > 0

\* "login:", " ", CR LF as received
ScenarioRecent == S_login \o <<32, LF>>

C12_PromptState ==
    /\ alp.state \in 0..2
    /\ ~alp.enabled => alp.state = 0
    /\ PromptLines = CASE alp.state = 0 -> <<>>
                        [] alp.state = 1 -> <<UserLine>>
                        [] alp.state = 2 -> <<UserLine, PassLine>>
    /\ (alp.enabled /\ alp.state = 0) => ~LoginMarker(recent)
    /\ (alp.enabled /\ recent = ScenarioRecent) => alp.state = 1

C12_PromptStep ==
    /\ alp'.state \in {alp.state, alp.state + 1}
    /\ alp'.state # alp.state => RecentUpdated
    /\ (alp.state = 0 /\ alp'.state = 1) => LoginMarker(recent')
    /\ (alp.state = 1 /\ alp'.state = 2) => PasswordMarker(recent')
    /\ (RecentUpdated /\ alp.enabled /\ alp.state = 0 /\ LoginMarker(recent'))
          => alp'.state = 1
    /\ (RecentUpdated /\ alp.enabled /\ alp.state = 1 /\ PasswordMarker(recent'))
          => alp'.state = 2

\* C12: the prompt-triggered machine moves only Idle -> AwaitingPasswordPrompt
\* -> Done, one state per update of the recent window; it has written the
\* username line once exactly when it has left Idle, which it does at the
\* update where a login marker first matches, and the password line once,
\* after the username, exactly when it is Done, which it reaches at an update
\* where a password marker matches while AwaitingPasswordPrompt; after
\* "login:", " ", CR LF it is in AwaitingPasswordPrompt having written one
\* username line.
C12_PromptMachine == []C12_PromptState /\ [][C12_PromptStep]_vars

C12_Witness ==
    /\ recent = ScenarioRecent /\ inbound = <<>>
    /\ opt.user = N0CALL
    /\ PromptLines = <<[src |-> "user", bytes |-> N0CALL \o <<CR, LF>>]>>
    /\ alp.state = 1

\* the lines written by the blind-timed machine, in order
IsBlindTx(e) == e.src \in {"blind_user", "blind_pass"}
BlindTx == SelectSeq(wire, IsBlindTx)
BlindLines == [k \in 1..Len(BlindTx) |-> Untag(BlindTx[k])]

BlindUserLine == [src |-> "blind_user", bytes |-> CStr(opt.user) \o send_eol(opt)]
BlindPassLine == [src |-> "blind_pass", bytes |-> CStr(opt.pass) \o send_eol(opt)]

\* nothing has been received from the node
NoInbound == recent = <<>> /\ sent = <<>> /\ tp = tp0

\* this step is a wake of select followed by the blind step (bpq.c:530-535)
IsWake == pc = "select" /\ pc' = "rx"

C13_BlindState ==
    /\ alb.stage \in 0..2
    /\ ~opt.blind => alb.stage = 0
    /\ BlindLines = CASE alb.stage = 0 -> <<>>
                       [] alb.stage = 1 -> <<BlindUserLine>>
                       [] alb.stage = 2 -> <<BlindUserLine, BlindPassLine>>
    /\ opt.blind => (alb.stage >= 1 <=> since_ms(alb.t0, now) >= DU_MS)
    /\ alb.stage = 2 => since_ms(alb.t0, alb.t_pass) >= DP_MS
    /\ (opt.blind /\ NoInbound /\ since_ms(alb.t0, now) < DU_MS) => wire = <<>>
    /\ (opt.blind /\ NoInbound /\ alb.stage < 2) => wire = BlindTx

C13_BlindStep ==
    /\ alb'.stage \in {alb.stage, alb.stage + 1}
    /\ alb'.stage # alb.stage => IsWake
    /\ (alb.stage = 1 /\ alb'.stage = 2)
          => since_ms(alb.t0, now') >= DP_MS /\ alb'.t_pass = now'
    /\ (opt.blind /\ IsWake /\ alb.stage = 1 /\ since_ms(alb.t0, now') >= DP_MS)
          => alb'.stage = 2

\* C13: the blind-timed machine writes nothing before 150 ms have elapsed
\* since start, has written the username line once exactly when 150 ms have
\* elapsed at a wake, and writes the password line once, at the first later
\* wake at which 1000 ms have elapsed since start; a wake never writes both;
\* with nothing received, nothing else is written before the password.
C13_BlindMachine == []C13_BlindState /\ [][C13_BlindStep]_vars

C13_Witness ==
    /\ opt.blind /\ ~opt.cr_only /\ NoInbound
    /\ alb.stage = 2 /\ alb.t_pass = DP_MS
    /\ SubSeq(wire, 1, 2) =
          <<[src |-> "blind_user", bytes |-> <<85, CR, LF>>, locked |-> TRUE],
            [src |-> "blind_pass", bytes |-> <<80, CR, LF>>, locked |-> TRUE]>>

\* the credential lines written in the session, whichever machine wrote them
IsCredential(e) == IsPromptTx(e) \/ IsBlindTx(e)
CredentialBytes ==
    LET c == SelectSeq(wire, IsCredential) IN [k \in 1..Len(c) |-> c[k].bytes]

\* C14: in a session started with --blind-auto the prompt-triggered machine
\* writes nothing, and the credential lines written are the username line
\* once, then the password line once.
C14_BlindSessionCredentials ==
    opt.blind =>
        /\ PromptTx = <<>>
        /\ IsPrefix(CredentialBytes,
                    <<CStr(opt.user) \o send_eol(opt), CStr(opt.pass) \o send_eol(opt)>>)

\* the session has just started: no wake yet
Started == pc = "select" /\ now = 0 /\ NoInbound /\ wire = <<>> /\ nkeys = 0

\* the unlock delay has elapsed since the prompt machine reached Done, or
\* since the moment the blind machine sent the password
DelayElapsed ==
    \/ login_done.flag /\ since_ms(login_done.t, now) >= opt.unlock_delay_ms
    \/ alb.stage = 2 /\ since_ms(alb.t_pass, now) >= opt.unlock_delay_ms

\* C15: the lock starts asserted exactly when an autologin strategy is
\* enabled, and once the checks of a wake have been made at which the unlock
\* delay has elapsed since the prompt machine reached Done, or since the
\* blind machine sent the password, the lock is no longer asserted.
C15_DelayUnlock ==
    /\ Started => (input_locked <=> (opt.prompt \/ opt.blind))
    /\ (ChecksDone /\ DelayElapsed) => ~input_locked

\* the auto-help lines written in the session
IsHelpTx(e) == e.src = "help"
HelpTx == SelectSeq(wire, IsHelpTx)

\* C16: the auto-help line "?" is written at most once and never while the
\* lock is asserted; with auto-help enabled it has been written once the
\* checks of the first wake at which the lock is not asserted have been made
\* (the first wake of the session without autologin); with auto-help disabled
\* it is never written.
C16_AutoHelpOnce ==
    /\ Len(HelpTx) <= 1
    /\ \A k \in 1..Len(HelpTx) :
          /\ ~HelpTx[k].locked
          /\ HelpTx[k].bytes = <<63>> \o send_eol(opt)
    /\ input_locked => HelpTx = <<>>
    /\ ~opt.auto_help => HelpTx = <<>>
    /\ (ChecksDone /\ ~input_locked /\ opt.auto_help) => Len(HelpTx) = 1
    /\ (ChecksDone /\ ~opt.prompt /\ ~opt.blind /\ opt.auto_help)
          => Len(HelpTx) = 1

\* auto-help written at the wake whose delay test released the lock, after
\* both credential lines
C16_Witness ==
    /\ opt.prompt /\ opt.auto_help /\ alp.state = 2
    /\ ChecksDone /\ since_ms(login_done.t, now) >= opt.unlock_delay_ms
    /\ Len(wire) >= 3
    /\ wire[Len(wire)] = [src |-> "help", bytes |-> <<63, CR, LF>>,
                           locked |-> FALSE]
    /\ wire[Len(wire) - 1].locked

\* ------------------------------------------------------------------------
\* Outbound escaping read back by a peer's filter: the bytes B are written
\* with write_telnet_safe and what was written is given to
\* telnet_filter_and_reply with a parser in the Data state.
\* ------------------------------------------------------------------------
InitEscape ==
    /\ B \in BSeq(FilterBytes, MaxStream)
    /\ cut = 0
    /\ fpc = "tx"
    /\ tp = tp0 /\ sent = <<>> /\ data = <<>>
    /\ rx_acc = <<>> /\ rx_lines = <<>> /\ rx_fed = <<>> /\ rx_raw = <<>>
    /\ WrapIdle /\ ViewIdle /\ LockIdle

EscapeFrame ==
    UNCHANGED <<B, cut, rxVars, wrapVars, viewVars, opt, pc, now, alp, alb,
                recent, last_rx, input_locked, login_done, auto_help_sent,
                ibuf, echoes, inbound, nkeys>>

EscapeWrite ==
    /\ fpc = "tx"
    /\ wire' = <<[src |-> "line", bytes |-> write_telnet_safe(B),
                  locked |-> FALSE]>>
    /\ fpc' = "flight"
    /\ UNCHANGED <<tp, sent, data>>
    /\ EscapeFrame

PeerFilter ==
    /\ fpc = "flight"
    /\ LET r == telnet_filter_and_reply(tp, wire[1].bytes, TmpCap) IN
          /\ tp' = r.tp
          /\ sent' = sent \o r.sent
          /\ data' = data \o r.out
    /\ fpc' = "rx"
    /\ UNCHANGED wire
    /\ EscapeFrame

NextEscape == EscapeWrite \/ PeerFilter

SpecEscape == InitEscape /\ [][NextEscape]_vars

\* e with every pair IAC IAC replaced by one IAC
RECURSIVE Collapse(_)
Collapse(e) ==
    IF e = <<>> THEN <<>>
    ELSE IF Len(e) >= 2 /\ e[1] = IAC /\ e[2] = IAC
      THEN <<IAC>> \o Collapse(SubSeqFrom(e, 3))
    ELSE <<e[1]>> \o Collapse(Tail(e))

CountIAC(b) == Cardinality({k \in 1..Len(b) : b[k] = IAC})

\* C18: what write_telnet_safe writes for b is b with each 0xFF doubled, and
\* the filter, started in the Data state on what was written, returns exactly
\* b as data, writes no reply and ends in the Data state.
C18_EscapeRoundTrip ==
    /\ fpc \in {"flight", "rx"} =>
          /\ Collapse(wire[1].bytes) = B
          /\ Len(wire[1].bytes) = Len(B) + CountIAC(B)
    /\ fpc = "rx" => data = B /\ sent = <<>> /\ tp.state = 0

C18_Witness ==
    /\ fpc = "rx"
    /\ B = <<IAC, DO_, 65, IAC>>
    /\ wire[1].bytes = <<IAC, IAC, DO_, 65, IAC, IAC>>
    /\ data = B

\* ------------------------------------------------------------------------
\* The output side when an allocation fails while a line is processed
\* ------------------------------------------------------------------------
\* PushAll when the wcsdup of push_visual_w fails for segment k: that call
\* returns without pushing (bpq.c:273)
PushAllBut(v, segs, k) ==
    PushAll(PushAll(v, SubSeq(segs, 1, k - 1)), SubSeqFrom(segs, k + 1))

\* add_logical_line_w with one failed allocation.  site is "store" (the
\* wcsdup at bpq.c:332), <<"seg", k>> (the malloc of segment k in
\* wrap_and_push_wide, bpq.c:319-320) or <<"visual", k>> (the wcsdup of
\* push_visual_w for segment k).
add_logical_line_w_nomem(v, line, follow, r, c, site) ==
    IF site = "store" THEN v
    ELSE LET v1 == IF Len(v.store) < STORE_MAX
                     THEN [v EXCEPT !.store = Append(@, line)]
                     ELSE [v EXCEPT !.store = Append(Tail(@), line)]
             segs == wrap_and_push_wide(line, Width(c))
             v2 == IF site[1] = "seg"
                     THEN PushAll(v1, SubSeq(segs, 1, site[2] - 1))
                     ELSE PushAllBut(v1, segs, site[2])
         IN IF follow
              THEN [v2 EXCEPT !.view_top = Max0(Len(v2.visual) - Visible(r))]
              ELSE v2

\* where an allocation can fail inside add_logical_line_w for this line
AppendSites(line, c) ==
    {"store"} \cup
    ({"seg", "visual"} \X (1..Len(wrap_and_push_wide(line, Width(c)))))

\* the first allocation failure of the session
NoMemFrame ==
    /\ ~nomem /\ nomem' = TRUE
    /\ UNCHANGED <<rows, cols, need_resize>>
    /\ UNCHANGED <<telnetVars, filterVars, rxVars, wrapVars, lockVars>>

\* a read completes one line and the realloc of rx_acc (bpq.c:550-551) or
\* the malloc of line8 (bpq.c:565-566) fails: die_cleanup
RxLineNoMemFatal ==
    /\ alive
    /\ alive' = FALSE
    /\ UNCHANGED <<store, visual, view_top>>
    /\ NoMemFrame

\* a read completes one line and utf8_to_wcs_lossy or expand_tabs_wcs
\* returns NULL (bpq.c:573-578): the line is skipped
RxLineNoMemDecode ==
    /\ alive
    /\ \E line \in RxLineSet : SetView(render_out(View, rows))
    /\ UNCHANGED alive
    /\ NoMemFrame

\* a read completes one line and an allocation fails in add_logical_line_w
RxLineNoMemAppend ==
    /\ alive
    /\ \E line \in RxLineSet : \E site \in AppendSites(line, cols) :
          SetView(render_out(
              add_logical_line_w_nomem(View, line, is_following(View, rows),
                                       rows, cols, site),
              rows))
    /\ UNCHANGED alive
    /\ NoMemFrame

\* local_echo_line when the malloc of echo fails (bpq.c:456-457): nothing
\* is added and nothing is rendered
LocalEchoNoMem ==
    /\ alive
    /\ UNCHANGED <<store, visual, view_top, alive>>
    /\ NoMemFrame

\* local_echo_line when an allocation fails in add_logical_line_w
LocalEchoNoMemAppend ==
    /\ alive
    /\ \E src \in EchoSrcs :
          LET echo == <<">", " ">> \o src IN
          \E site \in AppendSites(echo, cols) :
              SetView(render_out(
                  add_logical_line_w_nomem(View, echo, is_following(View, rows),
                                           rows, cols, site),
                  rows))
    /\ UNCHANGED alive
    /\ NoMemFrame

NextAlloc ==
    \/ alive /\ RxLines
    \/ alive /\ LocalEcho
    \/ alive /\ KeyUp
    \/ RxLineNoMemFatal
    \/ RxLineNoMemDecode
    \/ RxLineNoMemAppend
    \/ LocalEchoNoMem
    \/ LocalEchoNoMemAppend

SpecAlloc == Init /\ [][NextAlloc]_vars

\* C19: once an allocation has failed while a line was being decoded,
\* tab-expanded, stored or wrapped, the process no longer runs.
C19_AllocFailureFatal == nomem => ~alive

\* the lines the output side appends: received lines and echoed lines
AppendLines == RxLineSet \cup {<<">", " ">> \o src : src \in EchoSrcs}

\* this step appends the one line l (bpq.c:570-576 or local_echo_line)
SingleAppend(l) ==
    /\ SetView(render_out(
           add_logical_line_w(View, l, is_following(View, rows), rows, cols),
           rows))
    /\ UNCHANGED <<rows, cols, need_resize>>

\* visual lines the ring dropped in a step that appended the line l
Evicted(l) ==
    Len(visual) + Len(wrap_and_push_wide(l, Width(cols))) - Len(visual')

C20_AppendStep ==
    \A l \in AppendLines :
        SingleAppend(l) =>
            IF view_top = MaxTop
              THEN view_top' = Max0(Len(visual') - Visible(rows))
              ELSE view_top' = Max0(view_top - Evicted(l))

\* C20: an append moves view_top to the new bottom when the viewer was at
\* the bottom before it, and otherwise leaves view_top where it was, less
\* one for each visual line the ring dropped.
C20_FollowOnlyAtBottom == [][C20_AppendStep]_vars

\* ------------------------------------------------------------------------
\* Ring capacities and eviction order
\* ------------------------------------------------------------------------
C21_Capacity == Len(store) <= STORE_MAX /\ Len(visual) <= VIS_MAX

C21_AppendStep ==
    \A l \in AppendLines :
        SingleAppend(l) =>
            LET segs == wrap_and_push_wide(l, Width(cols)) IN
            /\ store' = Newest(Append(store, l), STORE_MAX)
            /\ visual' = Newest(visual \o segs, VIS_MAX)
            /\ Len(store) = STORE_MAX => store' = Append(Tail(store), l)
            /\ (Len(segs) = 1 /\ Len(visual) = VIS_MAX)
                   => visual' = Tail(visual) \o segs

\* C21: the store never holds more than STORE_MAX lines and the visual ring
\* never more than VIS_MAX; an append keeps the entries in their order with
\* the new ones last, and on a full ring drops exactly the oldest entry for
\* each entry it adds.
C21_RingEviction == []C21_Capacity /\ [][C21_AppendStep]_vars

\* both rings are full and both have dropped their oldest entries: the
\* three-character line wrapped at width 1 has left the store, and only its
\* last segments remain at the head of the visual ring
C21_Witness ==
    /\ Width(cols) = 1
    /\ Len(store) = STORE_MAX /\ Len(visual) = VIS_MAX
    /\ \A i \in 1..Len(store) : store[i] = <<"a">>
    /\ visual[1] = <<"b">>
    /\ \A i \in (VIS_MAX - STORE_MAX + 1)..VIS_MAX : visual[i] = <<"a">>

\* ------------------------------------------------------------------------
\* The normalizer applied to a buffer, and again to its own output
\* ------------------------------------------------------------------------
NormBytes == {CR, LF, 65, 66}

InitNorm ==
    /\ B \in BSeq(NormBytes, MaxStream)
    /\ cut = 0
    /\ fpc = "in"
    /\ tp = tp0 /\ sent = <<>> /\ data = <<>>
    /\ rx_acc = <<>> /\ rx_lines = <<>> /\ rx_fed = <<>> /\ rx_raw = <<>>
    /\ WrapIdle /\ ViewIdle /\ LockIdle

NormFrame ==
    UNCHANGED <<telnetVars, B, cut, rx_acc, rx_lines, rx_raw, wrapVars,
                viewVars, lockVars>>

\* size_t m = normalize_incoming(tmp, got, out, sizeof(out))
NormOnce ==
    /\ fpc = "in"
    /\ data' = normalize_incoming(B, OutCap)
    /\ fpc' = "once"
    /\ UNCHANGED rx_fed
    /\ NormFrame

\* the same call on the m bytes of out
NormTwice ==
    /\ fpc = "once"
    /\ rx_fed' = normalize_incoming(data, OutCap)
    /\ fpc' = "twice"
    /\ UNCHANGED data
    /\ NormFrame

NextNorm == NormOnce \/ NormTwice

SpecNorm == InitNorm /\ [][NextNorm]_vars

\* the bytes of s that are neither CR nor LF, in order
RECURSIVE Payload(_)
Payload(s) ==
    IF s = <<>> THEN <<>>
    ELSE IF Head(s) \in {CR, LF} THEN Payload(Tail(s))
    ELSE <<Head(s)>> \o Payload(Tail(s))

\* C22: the normalizer's output holds no carriage return, its bytes other
\* than line-feeds are the input's bytes other than CR and LF in the same
\* order, and normalizing the output again returns it unchanged.
C22_NormalizeIdempotent ==
    /\ fpc \in {"once", "twice"} =>
          /\ ~HasByte(data, CR)
          /\ Payload(data) = Payload(B)
    /\ fpc = "twice" => rx_fed = data

\* CR CR LF "A": a lone CR and a CR LF pair each became one line-feed, and
\* the second pass returned the same three bytes
C22_Witness ==
    /\ fpc = "twice"
    /\ B = <<CR, CR, LF, 65>>
    /\ data = <<LF, LF, 65>>
    /\ rx_fed = <<LF, LF, 65>>

\* ------------------------------------------------------------------------
\* The password prompt and the username
\* ------------------------------------------------------------------------
\* the normalized bytes received after the write e and up to the write f
Between(e, f) == SubSeq(rx_fed, e.seen + 1, f.seen)

\* C23: when the prompt-triggered machine has transmitted the password, a
\* password-prompt marker lies in the bytes received after the username was
\* transmitted.
C23_PasswordAfterFreshPrompt ==
    \A i, j \in 1..Len(wire) :
        (wire[i].src = "user" /\ wire[j].src = "pass")
            => PasswordMarker(Between(wire[i], wire[j]))

\* ------------------------------------------------------------------------
\* Resize while the viewer is at the bottom
\* ------------------------------------------------------------------------
\* this step services a pending resize (bpq.c:519-527)
ResizeServiced == need_resize = 1 /\ need_resize' = 0

C24_ResizeStep ==
    (ResizeServiced /\ view_top = MaxTop)
        => view_top' = Max0(Len(visual') - Visible(rows'))

\* C24: a viewer at the bottom immediately before a pending resize is
\* serviced is at the bottom of the new visual sequence after it, whatever
\* the new height and width.
C24_BottomSurvivesResize == [][C24_ResizeStep]_vars

\* ------------------------------------------------------------------------
\* The recent window against the bytes received
\* ------------------------------------------------------------------------
\* C25: the text of the recent window that the marker searches see is the
\* last min(RECENT_SIZE, total) normalized bytes received, so a login marker
\* lying within those bytes is found.
C25_RecentIsTrailingWindow ==
    /\ CStr(recent) = Newest(rx_fed, RECENT_SIZE)
    /\ LoginMarker(Newest(rx_fed, RECENT_SIZE)) => LoginMarker(recent)

\* ------------------------------------------------------------------------
\* From an emitted line to a logical line (bpq.c:217-267, 564-579), in a
\* UTF-8 locale
\* ------------------------------------------------------------------------
TABSTOP == 8

\* bytes of an emitted line: NUL, TAB, "A", and 0xC3 0xA9, the two bytes of
\* U+00E9
DecodeBytes == {0, 9, 65, 195, 169}

\* the model's character for a codepoint; "e" stands for U+00E9
wchar(cp) ==
    CASE cp = 9 -> "\t"
      [] cp = 63 -> "?"
      [] cp = 65 -> "A"
      [] cp = 233 -> "e"

\* mbrtowc at s[i] with a fresh state, for sequences of one and two bytes
\* (lead bytes above 0xDF are not drawn): [wc, r], r = -1 for a byte that
\* starts no valid sequence.  The byte after the last one is the terminator.
mbrtowc(s, i) ==
    LET b == s[i]
        nxt == IF i + 1 <= Len(s) THEN s[i + 1] ELSE 0
    IN IF b < 128 THEN [wc |-> b, r |-> 1]
       ELSE IF b \in 194..223 /\ nxt \in 128..191
         THEN [wc |-> (b - 192) * 64 + (nxt - 128), r |-> 2]
       ELSE [wc |-> 0, r |-> -1]

\* the while (*p) loop of utf8_to_wcs_lossy on the bytes before the
\* terminator
RECURSIVE DecodeLoop(_, _)
DecodeLoop(s, i) ==
    IF i > Len(s) THEN <<>>
    ELSE LET m == mbrtowc(s, i) IN
         IF m.r = -1 THEN <<"?">> \o DecodeLoop(s, i + 1)
         ELSE <<wchar(m.wc)>> \o DecodeLoop(s, i + m.r)

\* size_t n = strlen(s); ... while (*p)
utf8_to_wcs_lossy(s) == DecodeLoop(CStr(s), 1)

Spaces(n) == [k \in 1..n |-> " "]

\* the for loop of expand_tabs_wcs
RECURSIVE ExpandLoop(_, _, _, _)
ExpandLoop(in, i, col, tabstop) ==
    IF i > Len(in) THEN <<>>
    ELSE LET ch == in[i] IN
         IF ch = "\t"
           THEN LET next == IF tabstop > 0
                              THEN ((col \div tabstop) + 1) * tabstop
                              ELSE col + 1
                    spaces == IF next - col < 1 THEN 1 ELSE next - col
                IN Spaces(spaces) \o ExpandLoop(in, i + 1, next, tabstop)
           ELSE <<ch>> \o ExpandLoop(in, i + 1, col + CharW(ch), tabstop)

expand_tabs_wcs(in, tabstop) == ExpandLoop(in, 1, 0, tabstop)

\* one or two lines completed by a read, in a terminal of some size
InitDecode ==
    /\ \E sz \in TermSizes : rows = sz[1] /\ cols = sz[2]
    /\ rx_lines \in {<<l>> : l \in BSeq(DecodeBytes, MaxLineLen)}
                     \cup {<<<<65>>, <<0, 65>>>>}
    /\ cut = 0
    /\ fpc = "lines"
    /\ store = <<>> /\ visual = <<>> /\ view_top = 0
    /\ need_resize = 0 /\ alive = TRUE /\ nomem = FALSE
    /\ tp = tp0 /\ sent = <<>> /\ B = <<>> /\ data = <<>>
    /\ rx_acc = <<>> /\ rx_fed = <<>> /\ rx_raw = <<>>
    /\ WrapIdle /\ LockIdle

DecodeFrame ==
    UNCHANGED <<telnetVars, B, data, rxVars, wrapVars, rows, cols,
                need_resize, alive, nomem, lockVars>>

\* the body of the extraction loop for the next line (bpq.c:564-579)
DecodeLine ==
    /\ fpc = "lines"
    /\ cut < Len(rx_lines)
    /\ LET line8 == rx_lines[cut + 1]
           follow == is_following(View, rows)
           w == utf8_to_wcs_lossy(line8)
           wt == expand_tabs_wcs(w, TABSTOP)
       IN SetView(add_logical_line_w(View, wt, follow, rows, cols))
    /\ cut' = cut + 1
    /\ UNCHANGED fpc
    /\ DecodeFrame

\* no further line: the loop ends and the output window is drawn
DecodeDone ==
    /\ fpc = "lines"
    /\ cut = Len(rx_lines)
    /\ SetView(render_out(View, rows))
    /\ fpc' = "drawn"
    /\ UNCHANGED cut
    /\ DecodeFrame

NextDecode == DecodeLine \/ DecodeDone

SpecDecode == InitDecode /\ [][NextDecode]_vars

\* every byte of s decoded in order: the bytes between NULs are decoded as
\* the decoder decodes them, a NUL gives no character
RECURSIVE DecodeAll(_)
DecodeAll(s) ==
    LET h == CStr(s) IN
    IF Len(h) = Len(s) THEN DecodeLoop(h, 1)
    ELSE DecodeLoop(h, 1) \o DecodeAll(SubSeqFrom(s, Len(h) + 2))

\* C26: the logical lines stored are the lines emitted so far, each with all
\* of its bytes decoded in order (a codepoint for each valid sequence, a
\* placeholder for each other byte) and its tabs expanded; nothing after a
\* NUL byte is dropped.
C26_LineFullyDecoded ==
    store = Newest([k \in 1..cut |->
                       expand_tabs_wcs(DecodeAll(rx_lines[k]), TABSTOP)],
                   STORE_MAX)

====
